---- MODULE Spec2Model ----
(***************************************************************************)
(* Model of the multi-endpoint HTTP check (http-endpoints-check) of        *)
(* sensu/http-checks: the probe loop, the event loop and the report loop   *)
(* of executeCheck, Endpoint.generateEvent, and checkArgs with             *)
(* parseEndpoints and Endpoint.UnmarshalJSON; and of executeCheck of the   *)
(* single-URL checks http-get, http-json and http-perf.                    *)
(*                                                                         *)
(* Strings that are searched, split or rewritten (response body, search    *)
(* string, header strings) are sequences of one-character strings; URLs,   *)
(* API targets, file names and error values are atoms.                     *)
(***************************************************************************)
EXTENDS Integers, Sequences, FiniteSets, TLC

VARIABLES
    endpoints,      \* package variable endpoints []Endpoint
    dryRun,         \* plugin.DryRun
    suppressOK,     \* plugin.SuppressOKOutput
    checkRedirect,  \* http.DefaultClient.CheckRedirect: "nil" or "stop"
    pc,             \* position in executeCheck
    e,              \* index of the running range loop (1-based)
    resp,           \* outcome of the latest probe (client.Do + ReadAll)
    probed,         \* history: indices for which client.Do was called
    posts,          \* history: http.Post calls made by generateEvent
    printed,        \* history: events printed by generateEvent in dry-run
    report,         \* history: lines printed by the report loop
    overallStatus,  \* local overallStatus
    overallError,   \* local overallError (multierror): sequence of errors
    plugin,         \* package variable plugin: descriptor and global defaults
    tlsConfig,      \* package variable tlsConfig
    argsResult,     \* what checkArgs returned: status and error
    requests,       \* history: the requests handed to client.Do
    ret,            \* single-URL checks: what executeCheck returned
    warning,        \* http-perf: package variable warning (time.Duration)
    critical,       \* http-perf: package variable critical (time.Duration)
    elapsed         \* single-URL checks: time since the request was sent

vars == <<endpoints, dryRun, suppressOK, checkRedirect, pc, e, resp, probed,
          posts, printed, report, overallStatus, overallError,
          plugin, tlsConfig, argsResult, requests,
          ret, warning, critical, elapsed>>

(* The state of the single-URL checks, which the multi-endpoint check does *)
(* not have                                                                *)
singleVars == <<ret, warning, critical, elapsed>>

(* executeCheck has not returned *)
NotReturned == [status |-> -1, err |-> "none"]

NoSingleCheck ==
    ret = NotReturned /\ warning = 0 /\ critical = 0 /\ elapsed = 0

(* What executeCheck never writes *)
argVars == <<plugin, tlsConfig, argsResult>>

----------------------------------------------------------------------------
(* Bounds of the model *)

MaxEndpoints == 2

----------------------------------------------------------------------------
(* sensu.CheckState* *)

CheckStateOK == 0
CheckStateWarning == 1
CheckStateCritical == 2
CheckStateUnknown == 3

(* net/http status constants used by the switch *)
StatusMultipleChoices == 300
StatusBadRequest == 400

Nil == "nil"

----------------------------------------------------------------------------
(* Input sets *)

RedirectTarget == "http://r/z"
SearchStrings == {<< >>, <<"a", "b">>}
Bodies == {<<"b", "a", "b">>, <<"b", "a">>}
StatusCodes == {-1, 200, 301, 400, 500}
Locations == {"", RedirectTarget}
DefaultEventsAPI == "http://localhost:3031/events"

(* Status codes for which the Go client follows a Location header *)
FollowedCodes == {301, 302, 303, 307, 308}

----------------------------------------------------------------------------
(* url.Parse on the URLs of the model *)

(* The URL of the i-th endpoint of the list *)
DefaultURL == "http://localhost:80/"

URLAt(i) ==
    CASE i = 1 -> "http://a/"
      [] i = 2 -> "http://b/x"
      [] i = 3 -> "http://c/x-/y"
      [] OTHER -> "http://d"

(* A non-empty URL that url.Parse rejects (the host lacks its "]") *)
MalformedURL == "http://[::1"

URLParseOK(u) == u # MalformedURL

SecureURL == "https://s/"

URLScheme(u) == IF u = SecureURL THEN "https" ELSE "http"

URLHost(u) ==
    CASE u = "http://a/" -> "a"
      [] u = "http://b/x" -> "b"
      [] u = "http://c/x-/y" -> "c"
      [] u = DefaultURL -> "localhost:80"
      [] u = SecureURL -> "s"
      [] OTHER -> "d"

URLPath(u) ==
    CASE u = "http://a/" -> <<"/">>
      [] u = "http://b/x" -> <<"/", "x">>
      [] u = "http://c/x-/y" -> <<"/", "x", "-", "/", "y">>
      [] u = DefaultURL -> <<"/">>
      [] u = SecureURL -> <<"/">>
      [] OTHER -> << >>

Alnum == {"a", "b", "c", "x", "y", "z", "0", "1"}

(* regexp [^a-zA-Z0-9]+ ReplaceAllString(path, "_") *)
RECURSIVE ReplaceNonAlnum(_, _)
ReplaceNonAlnum(s, inRun) ==
    IF s = << >> THEN << >>
    ELSE IF Head(s) \in Alnum
         THEN <<Head(s)>> \o ReplaceNonAlnum(Tail(s), FALSE)
         ELSE IF inRun THEN ReplaceNonAlnum(Tail(s), TRUE)
              ELSE <<"_">> \o ReplaceNonAlnum(Tail(s), TRUE)

SynthCheckName(u) ==
    LET processedString == ReplaceNonAlnum(URLPath(u), FALSE) IN
    IF Len(processedString) = 0
    THEN <<"http_check-", "root_path">>
    ELSE <<"http_check-">> \o processedString

----------------------------------------------------------------------------
(* strings.Contains *)

Contains(s, sub) ==
    \E i \in 0..(Len(s) - Len(sub)) : SubSeq(s, i + 1, i + Len(sub)) = sub

(* A rendered status message: the Sprintf format used and its arguments *)
Msg(kind, code, url, extra) ==
    [kind |-> kind, code |-> code, url |-> url, extra |-> extra]

NoMsg == Msg("", 0, "", "")

----------------------------------------------------------------------------
(* The outcome of client.Do followed by ioutil.ReadAll for one endpoint *)

SendError == [phase |-> "send_err", StatusCode |-> 0, Body |-> << >>,
              FinalURL |-> "", Location |-> ""]

ReadError(code, final, loc) ==
    [phase |-> "read_err", StatusCode |-> code, Body |-> << >>,
     FinalURL |-> final, Location |-> loc]

Response(code, body, final, loc) ==
    [phase |-> "resp", StatusCode |-> code, Body |-> body,
     FinalURL |-> final, Location |-> loc]

NoResp == [phase |-> "none", StatusCode |-> 0, Body |-> << >>,
           FinalURL |-> "", Location |-> ""]

(* Location is a header of redirect responses *)
LocationsFor(code) ==
    IF code >= 300 /\ code < 400 THEN Locations ELSE {""}

(* The final URL of the response: the requested URL, or, when the client   *)
(* follows redirects (CheckRedirect is nil), the target of a redirect.     *)
FinalURLsFor(endpoint, policy) ==
    IF policy = "nil" THEN {endpoint.URL, RedirectTarget} ELSE {endpoint.URL}

(* A response the client returns as final: with CheckRedirect nil a        *)
(* redirect status with a Location is followed, never returned.            *)
IsFinal(code, loc, policy) ==
    ~(policy = "nil" /\ code \in FollowedCodes /\ loc # "")

Responses(endpoint, policy) ==
    {Response(code, body, final, loc) :
        <<code, body, final, loc>> \in
            {t \in StatusCodes \X Bodies
                    \X FinalURLsFor(endpoint, policy) \X Locations :
                /\ t[4] \in LocationsFor(t[1])
                /\ IsFinal(t[1], t[4], policy)}}

Outcomes(endpoint, policy) ==
    {SendError, ReadError(200, endpoint.URL, "")} \cup Responses(endpoint, policy)

----------------------------------------------------------------------------
(* Evaluation of one probe: the values written to endpoints[e].Error,      *)
(* .Status and .StatusMsg, and whether the statement that ends the branch  *)
(* is a break of the enclosing for loop (brk).                             *)

Result(err, status, msg, brk) ==
    [Error |-> err, Status |-> status, StatusMsg |-> msg, brk |-> brk]

(* if err != nil after url.Parse *)
ParseFailure(endpoint) ==
    Result("parse_error", CheckStateCritical,
           Msg("CRITICAL: error parsing URL", 0, "", ""), TRUE)

(* if err != nil after client.Do / ioutil.ReadAll *)
TransportFailure(endpoint, r) ==
    IF r.phase = "send_err"
    THEN Result("send_error", CheckStateCritical,
                Msg("CRITICAL: error making request", 0, "", ""), TRUE)
    ELSE Result("read_error", CheckStateCritical,
                Msg("CRITICAL: error reading body", 0, "", ""), TRUE)

(* if len(endpoint.SearchString) > 0 { ... } *)
SearchCheck(endpoint, r) ==
    IF Contains(r.Body, endpoint.SearchString)
    THEN Result(Nil, CheckStateOK, Msg("OK: found", 0, r.FinalURL, ""), TRUE)
    ELSE Result(Nil, CheckStateCritical,
                Msg("CRITICAL: not found", 0, r.FinalURL, ""), TRUE)

(* Mutant: status > 400 instead of >= 400 in the first case *)
StatusCheckStrict(endpoint, r) ==
    IF r.StatusCode > StatusBadRequest
    THEN Result(Nil, CheckStateCritical,
                Msg("CRITICAL: HTTP Status", r.StatusCode, endpoint.URL, ""),
                FALSE)
    ELSE IF r.FinalURL # endpoint.URL /\ endpoint.RedirectOK
    THEN Result(Nil, CheckStateOK,
                Msg("OK: HTTP Status (redirect from)", r.StatusCode,
                    r.FinalURL, endpoint.URL),
                FALSE)
    ELSE IF r.StatusCode >= StatusMultipleChoices
    THEN Result(Nil, CheckStateWarning,
                Msg("WARNING: HTTP Status", r.StatusCode, endpoint.URL,
                    r.Location),
                FALSE)
    ELSE IF r.StatusCode = -1
    THEN Result(Nil, CheckStateUnknown,
                Msg("UNKNOWN: HTTP Status", r.StatusCode, endpoint.URL, ""),
                FALSE)
    ELSE Result(Nil, CheckStateOK,
                Msg("OK: HTTP Status", r.StatusCode, endpoint.URL, ""),
                FALSE)

(* Mutant: the 3xx case is tried before the followed-redirect case *)
StatusCheckWarningFirst(endpoint, r) ==
    IF r.StatusCode >= StatusBadRequest
    THEN Result(Nil, CheckStateCritical,
                Msg("CRITICAL: HTTP Status", r.StatusCode, endpoint.URL, ""),
                FALSE)
    ELSE IF r.StatusCode >= StatusMultipleChoices
    THEN Result(Nil, CheckStateWarning,
                Msg("WARNING: HTTP Status", r.StatusCode, endpoint.URL,
                    r.Location),
                FALSE)
    ELSE IF r.FinalURL # endpoint.URL /\ endpoint.RedirectOK
    THEN Result(Nil, CheckStateOK,
                Msg("OK: HTTP Status (redirect from)", r.StatusCode,
                    r.FinalURL, endpoint.URL),
                FALSE)
    ELSE IF r.StatusCode = -1
    THEN Result(Nil, CheckStateUnknown,
                Msg("UNKNOWN: HTTP Status", r.StatusCode, endpoint.URL, ""),
                FALSE)
    ELSE Result(Nil, CheckStateOK,
                Msg("OK: HTTP Status", r.StatusCode, endpoint.URL, ""),
                FALSE)

(* switch { case resp.StatusCode >= http.StatusBadRequest: ... }: the      *)
(* first case that matches is taken; a break inside it leaves the switch.  *)
StatusCheck(endpoint, r) ==
    IF r.StatusCode >= StatusBadRequest
    THEN Result(Nil, CheckStateCritical,
                Msg("CRITICAL: HTTP Status", r.StatusCode, endpoint.URL, ""),
                FALSE)
    ELSE IF r.FinalURL # endpoint.URL /\ endpoint.RedirectOK
    THEN Result(Nil, CheckStateOK,
                Msg("OK: HTTP Status (redirect from)", r.StatusCode,
                    r.FinalURL, endpoint.URL),
                FALSE)
    ELSE IF r.StatusCode >= StatusMultipleChoices
    THEN Result(Nil, CheckStateWarning,
                Msg("WARNING: HTTP Status", r.StatusCode, endpoint.URL,
                    r.Location),
                FALSE)
    ELSE IF r.StatusCode = -1
    THEN Result(Nil, CheckStateUnknown,
                Msg("UNKNOWN: HTTP Status", r.StatusCode, endpoint.URL, ""),
                FALSE)
    ELSE Result(Nil, CheckStateOK,
                Msg("OK: HTTP Status", r.StatusCode, endpoint.URL, ""),
                FALSE)

(* Mutant: the search branch is taken only for successful statuses *)
EvaluateStatusFirst(endpoint, r) ==
    IF r.phase \in {"send_err", "read_err"} THEN TransportFailure(endpoint, r)
    ELSE IF Len(endpoint.SearchString) > 0 /\ r.StatusCode < StatusBadRequest
    THEN SearchCheck(endpoint, r)
    ELSE StatusCheck(endpoint, r)

(* The body of the probe loop after the request has been built *)
Evaluate(endpoint, r) ==
    IF r.phase \in {"send_err", "read_err"} THEN TransportFailure(endpoint, r)
    ELSE IF Len(endpoint.SearchString) > 0 THEN SearchCheck(endpoint, r)
    ELSE StatusCheck(endpoint, r)

----------------------------------------------------------------------------
(* Mutant: the event does not carry the endpoint's severity *)
generateEventNoStatus(endpoint) ==
    [CheckName |-> endpoint.CheckName,
     CheckStatus |-> CheckStateOK,
     CheckOutput |-> endpoint.StatusMsg,
     CheckHandlers |-> endpoint.Handlers,
     EntityName |-> endpoint.EntityName]

(* Endpoint.generateEvent: the event built from the endpoint *)

generateEvent(endpoint) ==
    [CheckName |-> endpoint.CheckName,
     CheckStatus |-> endpoint.Status,
     CheckOutput |-> endpoint.StatusMsg,
     CheckHandlers |-> endpoint.Handlers,
     EntityName |-> endpoint.EntityName]

(* if endpoint.Error == nil && endpoint.CreateEvent *)
EmitsEvent(endpoint) == endpoint.Error = Nil /\ endpoint.CreateEvent

RaiseOverallLastWins(overall, endpoint) == endpoint.Status

(* if overallStatus < endpoint.Status { overallStatus = endpoint.Status } *)
RaiseOverall(overall, endpoint) ==
    IF overall < endpoint.Status THEN endpoint.Status ELSE overall

(* Mutant: the event is transmitted in dry-run mode too *)
SendsEventAlways(dry) == TRUE

(* if plugin.DryRun { print } else { http.Post } *)
SendsEvent(dry) == ~dry

(* http.Post(e.EventsAPI, ...): the destination of the event *)
PostTarget(endpoint) == endpoint.EventsAPI

(* Mutant: the error of a failed POST is dropped *)
PostResultSwallowed(ok) == Nil

(* The error generateEvent returns after http.Post *)
PostResult(ok) == IF ok THEN Nil ELSE "post_error"

(* Mutant: suppress-OK-output hides every line *)
PrintsLineSuppressAll(endpoint, suppress) == ~suppress

(* if (!plugin.SuppressOKOutput && endpoint.Status == 0) || endpoint.Status > 0 *)
PrintsLine(endpoint, suppress) ==
    (~suppress /\ endpoint.Status = 0) \/ endpoint.Status > 0

(* Mutant: only the first recorded error is returned *)
AppendErrorFirstOnly(overall, endpoint) ==
    IF endpoint.Error # Nil /\ overall = << >>
    THEN <<endpoint.Error>>
    ELSE overall

(* if endpoint.Error != nil { overallError = multierror.Append(overallError, *)
(* endpoint.Error) }: the combined error as the sequence of its entries,   *)
(* the empty sequence being the nil error.                                 *)
AppendError(overall, endpoint) ==
    IF endpoint.Error # Nil
    THEN Append(overall, endpoint.Error)
    ELSE overall

ReportLine(endpoint) ==
    [URL |-> endpoint.URL, Status |-> endpoint.Status,
     Output |-> endpoint.StatusMsg]

----------------------------------------------------------------------------
(* Header strings and the request handed to client.Do *)

(* unicode.ToLower / ToUpper on the letters of the model's header names *)
Lower(c) ==
    CASE c = "A" -> "a"
      [] c = "H" -> "h"
      [] c = "O" -> "o"
      [] c = "S" -> "s"
      [] c = "T" -> "t"
      [] OTHER -> c

Upper(c) ==
    CASE c = "a" -> "A"
      [] c = "h" -> "H"
      [] c = "o" -> "O"
      [] c = "s" -> "S"
      [] c = "t" -> "T"
      [] OTHER -> c

(* Index of the first ":" of s, 0 when there is none *)
FirstColon(s) ==
    IF \E i \in 1..Len(s) : s[i] = ":"
    THEN CHOOSE i \in 1..Len(s) : s[i] = ":" /\ \A j \in 1..(i - 1) : s[j] # ":"
    ELSE 0

(* strings.SplitN(header, ":", 2) *)
SplitN2(header) ==
    IF FirstColon(header) = 0
    THEN <<header>>
    ELSE <<SubSeq(header, 1, FirstColon(header) - 1),
           SubSeq(header, FirstColon(header) + 1, Len(header))>>

RECURSIVE TrimLeft(_)
TrimLeft(s) ==
    IF Len(s) > 0 /\ s[1] = " " THEN TrimLeft(Tail(s)) ELSE s

RECURSIVE TrimRight(_)
TrimRight(s) ==
    IF Len(s) > 0 /\ s[Len(s)] = " "
    THEN TrimRight(SubSeq(s, 1, Len(s) - 1))
    ELSE s

(* strings.TrimSpace *)
TrimSpace(s) == TrimRight(TrimLeft(s))

(* textproto.CanonicalMIMEHeaderKey, applied by http.Header.Set: the first *)
(* letter and every letter after a "-" in upper case, the others in lower  *)
(* case.                                                                   *)
CanonicalMIMEHeaderKey(s) ==
    [i \in 1..Len(s) |->
        IF i = 1 \/ s[i - 1] = "-" THEN Upper(s[i]) ELSE Lower(s[i])]

(* http.Header (one value per key, as Set leaves it): a function from      *)
(* canonical keys to values.                                               *)
NoHeader == [k \in {} |-> << >>]

(* req.Header.Set(key, value) *)
HeaderSet(h, key, value) ==
    [k \in DOMAIN h \cup {CanonicalMIMEHeaderKey(key)} |->
        IF k = CanonicalMIMEHeaderKey(key) THEN value ELSE h[k]]

(* http.NewRequest("GET", endpoint.URL, nil): req.Host is the URL's host *)
NewRequest(url) == [URL |-> url, Host |-> URLHost(url), Header |-> NoHeader]

(* req.Header.Set(strings.TrimSpace(headerSplit[0]),                       *)
(*                strings.TrimSpace(headerSplit[1]))                       *)
SetHeader(req, header) ==
    [req EXCEPT !.Header = HeaderSet(@, TrimSpace(SplitN2(header)[1]),
                                        TrimSpace(SplitN2(header)[2]))]

(* for _, header := range endpoint.Headers { ... } *)
RECURSIVE SetHeaders(_, _)
SetHeaders(req, headers) ==
    IF Len(headers) = 0
    THEN req
    ELSE SetHeaders(SetHeader(req, Head(headers)), Tail(headers))

(* The request of the probe of an endpoint *)
BuildRequest(endpoint) == SetHeaders(NewRequest(endpoint.URL), endpoint.Headers)

(* if checkURL.Scheme == "https": the TLSClientConfig of the client's       *)
(* transport is set to &tlsConfig.                                         *)
(* The TLS configuration of the connection to url: none for http, the      *)
(* package variable tlsConfig, as it is when the request is sent, for      *)
(* https.                                                                  *)
TLSClientConfig(url, tls) ==
    [used |-> URLScheme(url) = "https",
     config |-> IF URLScheme(url) = "https" THEN tls
                ELSE [RootCAs |-> "", InsecureSkipVerify |-> FALSE,
                      Certificates |-> << >>]]

(* client.Do(req): the request and the TLS configuration it is sent with *)
Sent(req, tls) ==
    [URL |-> req.URL, Host |-> req.Host, Header |-> req.Header,
     TLS |-> TLSClientConfig(req.URL, tls)]

(* headerSplit[1] is read without a length test: a header string without   *)
(* a colon makes the probe panic (index out of range).                     *)
HeadersMalformed(endpoint) ==
    \E i \in 1..Len(endpoint.Headers) : Len(SplitN2(endpoint.Headers[i])) # 2

----------------------------------------------------------------------------
(* The package variables plugin and tlsConfig *)

DefaultTimeout == 15

(* plugin.Endpoints: the descriptor string. kind "absent" is the empty     *)
(* string, "invalid" a string that is not JSON, "scalar" a JSON value that *)
(* is not an array, "array" a JSON array of the elements elems.            *)
NoDescriptor == [kind |-> "absent", elems |-> << >>]

(* The option defaults. Cap holds the capacities of the two slices.        *)
DefaultConfig ==
    [Endpoints |-> NoDescriptor,
     URL |-> DefaultURL, SearchString |-> << >>, Headers |-> << >>,
     RedirectOK |-> FALSE, Timeout |-> DefaultTimeout,
     MTLSKeyFile |-> "", MTLSCertFile |-> "", TrustedCAFile |-> "",
     InsecureSkipVerify |-> FALSE, CreateEvent |-> FALSE,
     EntityName |-> "", CheckName |-> << >>,
     EventsAPI |-> DefaultEventsAPI, Handlers |-> << >>,
     Cap |-> [Headers |-> 0, Handlers |-> 0]]

(* var tlsConfig tls.Config: the zero value. RootCAs is the CA file whose   *)
(* pool was loaded ("" for the nil pool), Certificates the loaded pairs.   *)
ZeroTLSConfig ==
    [RootCAs |-> "", InsecureSkipVerify |-> FALSE, Certificates |-> << >>]

(* What checkArgs returns when every endpoint is valid *)
ArgsOK == [status |-> CheckStateOK, err |-> Nil]

----------------------------------------------------------------------------
(* The endpoint list as checkArgs leaves it: every entry resolved against  *)
(* the defaults, Error nil, Status 0 and StatusMsg empty.                  *)

(* The event settings of the i-th endpoint: odd entries of the list set    *)
(* their own names, handlers and events API, even entries keep the         *)
(* defaults (no names, no handlers, the default events API).               *)
EventSettingsAt(i) ==
    IF i % 2 = 1
    THEN [EntityName |-> "entity1", CheckName |-> <<"check1">>,
          Handlers |-> <<"slack">>, EventsAPI |-> "http://sink/events"]
    ELSE [EntityName |-> "", CheckName |-> << >>, Handlers |-> << >>,
          EventsAPI |-> DefaultEventsAPI]

EndpointsAt(i) ==
    {[URL |-> URLAt(i), SearchString |-> t[1], RedirectOK |-> t[2],
      CreateEvent |-> t[3],
      EntityName |-> EventSettingsAt(i).EntityName,
      CheckName |-> EventSettingsAt(i).CheckName,
      Handlers |-> EventSettingsAt(i).Handlers,
      EventsAPI |-> EventSettingsAt(i).EventsAPI,
      Headers |-> DefaultConfig.Headers, Timeout |-> DefaultConfig.Timeout,
      MTLSKeyFile |-> DefaultConfig.MTLSKeyFile,
      MTLSCertFile |-> DefaultConfig.MTLSCertFile,
      TrustedCAFile |-> DefaultConfig.TrustedCAFile,
      InsecureSkipVerify |-> DefaultConfig.InsecureSkipVerify,
      Error |-> Nil, Status |-> 0, StatusMsg |-> NoMsg] :
        t \in SearchStrings \X BOOLEAN \X BOOLEAN}

EndpointLists ==
    UNION {{l \in [1..n -> UNION {EndpointsAt(i) : i \in 1..n}] :
               \A i \in 1..n : l[i] \in EndpointsAt(i)} : n \in 1..MaxEndpoints}

Init ==
    /\ endpoints \in EndpointLists
    /\ dryRun \in BOOLEAN
    /\ suppressOK \in BOOLEAN
    /\ checkRedirect = "nil"
    /\ pc = "probe"
    /\ e = 1
    /\ resp = NoResp
    /\ probed = << >>
    /\ posts = << >>
    /\ printed = << >>
    /\ report = << >>
    /\ overallStatus = 0
    /\ overallError = << >>
    /\ plugin = DefaultConfig
    /\ tlsConfig = ZeroTLSConfig
    /\ argsResult = ArgsOK
    /\ requests = << >>
    /\ NoSingleCheck

----------------------------------------------------------------------------
(* executeCheck, first loop: one iteration of                              *)
(*   for e, endpoint := range endpoints { ... }                            *)

(* client.CheckRedirect after  if !endpoint.RedirectOK { ... }  *)
SetCheckRedirect(policy, endpoint) ==
    IF ~endpoint.RedirectOK THEN "stop" ELSE policy

(* endpoints[e].EntityName / .CheckName after the defaulting of the names *)
WithNames(endpoint) ==
    [endpoint EXCEPT
        !.EntityName = IF Len(endpoint.EntityName) = 0
                       THEN URLHost(endpoint.URL) ELSE @,
        !.CheckName = IF Len(endpoint.CheckName) = 0
                      THEN SynthCheckName(endpoint.URL) ELSE @]

WithResult(endpoint, res) ==
    [endpoint EXCEPT !.Error = res.Error, !.Status = res.Status,
                     !.StatusMsg = res.StatusMsg]

(* Where the loop goes after an iteration: a break, or the end of the      *)
(* range, leaves it.                                                       *)
AfterIteration(brk, next) ==
    IF brk \/ e = Len(endpoints)
    THEN pc' = next /\ e' = 1
    ELSE pc' = pc /\ e' = e + 1

ProbeStep ==
    /\ pc = "probe"
    /\ LET endpoint == endpoints[e]
           policy == SetCheckRedirect(checkRedirect, endpoint) IN
       /\ checkRedirect' = policy
       /\ IF ~URLParseOK(endpoint.URL)
          THEN \* checkURL is nil: reading checkURL.Host or checkURL.Path panics
               IF Len(endpoint.EntityName) = 0 \/ Len(endpoint.CheckName) = 0
               THEN /\ pc' = "panic"
                    /\ UNCHANGED <<endpoints, e, resp, probed, requests>>
               ELSE /\ endpoints' = [endpoints EXCEPT
                                       ![e] = WithResult(@, ParseFailure(endpoint))]
                    /\ AfterIteration(TRUE, "events")
                    /\ UNCHANGED <<resp, probed, requests>>
          ELSE IF HeadersMalformed(endpoint)
          THEN /\ pc' = "panic"
               /\ endpoints' = [endpoints EXCEPT ![e] = WithNames(@)]
               /\ UNCHANGED <<e, resp, probed, requests>>
          ELSE \E r \in Outcomes(endpoint, policy) :
                 LET res == Evaluate(endpoint, r) IN
                 /\ resp' = r
                 /\ probed' = Append(probed, e)
                 /\ requests' = Append(requests,
                        Sent(BuildRequest(endpoint), tlsConfig))
                 /\ endpoints' = [endpoints EXCEPT
                                    ![e] = WithResult(WithNames(@), res)]
                 /\ AfterIteration(res.brk, "events")
    /\ UNCHANGED <<dryRun, suppressOK, posts, printed, report,
                   overallStatus, overallError, argVars, singleVars>>

(* executeCheck, second loop: events and overall status *)
EventStep ==
    /\ pc = "events"
    /\ LET endpoint == endpoints[e] IN
       IF EmitsEvent(endpoint)
       THEN /\ IF ~SendsEvent(dryRun)
               THEN /\ printed' = Append(printed,
                          [endpoint |-> e, URL |-> endpoint.URL,
                           api |-> endpoint.EventsAPI,
                           event |-> generateEvent(endpoint)])
                    /\ endpoints' = [endpoints EXCEPT ![e].Error = Nil]
                    /\ UNCHANGED posts
               ELSE \E ok \in BOOLEAN :
                    /\ posts' = Append(posts,
                          [endpoint |-> e, api |-> PostTarget(endpoint),
                           event |-> generateEvent(endpoint), ok |-> ok])
                    /\ endpoints' = [endpoints EXCEPT ![e].Error = PostResult(ok)]
                    /\ UNCHANGED printed
            /\ UNCHANGED overallStatus
       ELSE /\ overallStatus' = RaiseOverall(overallStatus, endpoint)
            /\ UNCHANGED <<endpoints, posts, printed>>
    /\ AfterIteration(FALSE, "report")
    /\ resp' = NoResp  \* resp is local to the body of the first loop
    /\ UNCHANGED <<dryRun, suppressOK, checkRedirect, probed, report,
                   overallError, argVars, requests, singleVars>>

(* executeCheck, third loop: combined error and report lines *)
ReportStep ==
    /\ pc = "report"
    /\ LET endpoint == endpoints[e] IN
       /\ overallError' = AppendError(overallError, endpoint)
       /\ report' = IF PrintsLine(endpoint, suppressOK)
                    THEN Append(report, ReportLine(endpoint))
                    ELSE report
    /\ AfterIteration(FALSE, "done")
    /\ UNCHANGED <<endpoints, dryRun, suppressOK, checkRedirect, resp, probed,
                   posts, printed, overallStatus, argVars, requests,
                   singleVars>>

Next == ProbeStep \/ EventStep \/ ReportStep

Spec == Init /\ [][Next]_vars

----------------------------------------------------------------------------
(* The descriptor as JSON, and encoding/json decoding it into []Endpoint   *)

(* A JSON value of an object member, with its JSON type *)
JString(v) == [t |-> "string", v |-> v]
JBool(v) == [t |-> "bool", v |-> v]
JNumber(v) == [t |-> "number", v |-> v]
JArray(v) == [t |-> "array", v |-> v]

(* An element of the descriptor array: an object with its members, or a    *)
(* JSON number.                                                            *)
NoFields == [k \in {} |-> JBool(FALSE)]
JObject(fields) == [kind |-> "object", fields |-> fields]
JNumberElem == [kind |-> "number", fields |-> NoFields]

(* The json struct tags of Endpoint *)
Tags ==
    [URL |-> "url", Headers |-> "header", SearchString |-> "search-string",
     RedirectOK |-> "redirect-ok", Timeout |-> "timeout",
     MTLSKeyFile |-> "mtls-key-file", MTLSCertFile |-> "mtls-cert-file",
     TrustedCAFile |-> "trusted-ca",
     InsecureSkipVerify |-> "insecure-skip-verify",
     CreateEvent |-> "create-event", EntityName |-> "event-entity-name",
     CheckName |-> "event-entity-name", Handlers |-> "event-handlers",
     EventsAPI |-> "events-api"]

(* The JSON type each field of Endpoint decodes from *)
GoType ==
    [URL |-> "string", Headers |-> "array", SearchString |-> "string",
     RedirectOK |-> "bool", Timeout |-> "number",
     MTLSKeyFile |-> "string", MTLSCertFile |-> "string",
     TrustedCAFile |-> "string", InsecureSkipVerify |-> "bool",
     CreateEvent |-> "bool", EntityName |-> "string",
     CheckName |-> "string", Handlers |-> "array", EventsAPI |-> "string"]

SliceFields == {"Headers", "Handlers"}

(* encoding/json keeps a field only if no other field of the struct has    *)
(* the same tag: two tagged fields with one name hide each other.          *)
Decodable(f) == \A g \in DOMAIN Tags : Tags[g] = Tags[f] => g = f

(* The member of the element that json.Unmarshal stores in field f: the    *)
(* element is an object, the field is decodable, the member is present and *)
(* of the field's type. Anything else leaves the field as it was (the      *)
(* error of the inner json.Unmarshal is dropped).                          *)
Sets(f, elem) ==
    /\ elem.kind = "object"
    /\ Decodable(f)
    /\ Tags[f] \in DOMAIN elem.fields
    /\ elem.fields[Tags[f]].t = GoType[f]

(* A []string field of a decoded endpoint: a view of the first len         *)
(* elements of the backing array of the plugin's slice (shared), or a      *)
(* slice of its own.                                                       *)
SharedSlice(len) == [shared |-> TRUE, len |-> len, own |-> << >>]
OwnSlice(v) == [shared |-> FALSE, len |-> Len(v), own |-> v]

(* The backing array of a plugin slice: its elements and the spare         *)
(* capacity after them.                                                    *)
BackingArray(v, cap) == [i \in 1..cap |-> IF i <= Len(v) THEN v[i] ELSE << >>]

(* json.Unmarshal of the array h into a slice that starts as the plugin's  *)
(* slice: the elements are decoded in place into the backing array up to   *)
(* its capacity; a longer array moves to a grown copy, an empty one is     *)
(* replaced by a new empty slice.                                          *)
DecodeInPlace(arr, h) ==
    [i \in 1..Len(arr) |-> IF i <= Len(h) THEN h[i] ELSE arr[i]]

DecodedSlice(arr, h) ==
    IF Len(h) = 0 THEN OwnSlice(<< >>)
    ELSE IF Len(h) <= Len(arr) THEN SharedSlice(Len(h))
    ELSE OwnSlice(h)

(* The elements a slice shows once parsing is over *)
Deref(ref, arr) == IF ref.shared THEN SubSeq(arr, 1, ref.len) ELSE ref.own

(* Mutant: the alias struct starts from the zero value *)
SeedZero(cfg, f) ==
    CASE f \in {"SearchString", "CheckName"} -> << >>
      [] GoType[f] = "string" -> ""
      [] GoType[f] = "bool" -> FALSE
      [] GoType[f] = "number" -> 0
      [] OTHER -> << >>

(* endpoint := &endpointAlias{URL: plugin.URL, ...}: the value field f     *)
(* starts from                                                             *)
Seed(cfg, f) == cfg[f]

(* Endpoint.UnmarshalJSON on one element, given the backing arrays of      *)
(* plugin.Headers and plugin.Handlers as the elements before it left them: *)
(* the decoded endpoint (Error, Status and StatusMsg at their zero values) *)
(* and the backing arrays after it.                                        *)
UnmarshalJSON(elem, cfg, arrs) ==
    [endpoint |->
        [f \in DOMAIN Tags \cup {"Error", "Status", "StatusMsg"} |->
            CASE f = "Error" -> Nil
              [] f = "Status" -> 0
              [] f = "StatusMsg" -> NoMsg
              [] f \in SliceFields ->
                    IF Sets(f, elem)
                    THEN DecodedSlice(arrs[f], elem.fields[Tags[f]].v)
                    ELSE SharedSlice(Len(Seed(cfg, f)))
              [] OTHER ->
                    IF Sets(f, elem)
                    THEN elem.fields[Tags[f]].v
                    ELSE Seed(cfg, f)],
     arrs |->
        [f \in SliceFields |->
            IF Sets(f, elem)
            THEN DecodeInPlace(arrs[f], elem.fields[Tags[f]].v)
            ELSE arrs[f]]]

(* json.Unmarshal(data, &endpoints) over the elements of the array, in     *)
(* order: UnmarshalJSON returns nil for every element.                     *)
RECURSIVE DecodeElements(_, _, _, _)
DecodeElements(elems, cfg, arrs, out) ==
    IF Len(elems) = 0
    THEN [out |-> out, arrs |-> arrs]
    ELSE LET r == UnmarshalJSON(Head(elems), cfg, arrs) IN
         DecodeElements(Tail(elems), cfg, r.arrs, Append(out, r.endpoint))

(* parseEndpoints: err is TRUE when json.Unmarshal fails, which it does    *)
(* for a string that is not JSON and for a JSON value that is not an       *)
(* array; otherwise the endpoints and what plugin.Headers and              *)
(* plugin.Handlers hold afterwards.                                        *)
parseEndpoints(elems, cfg) ==
    LET r == DecodeElements(elems, cfg,
                 [f \in SliceFields |-> BackingArray(cfg[f], cfg.Cap[f])],
                 << >>) IN
    [endpoints |->
        [i \in 1..Len(r.out) |->
            [f \in DOMAIN r.out[i] |->
                IF f \in SliceFields
                THEN Deref(r.out[i][f], r.arrs[f])
                ELSE r.out[i][f]]],
     plugin |->
        [f \in DOMAIN cfg |->
            IF f \in SliceFields
            THEN SubSeq(r.arrs[f], 1, Len(cfg[f]))
            ELSE cfg[f]]]

(* The elements handed to json.Unmarshal: `[{}]` when plugin.Endpoints is  *)
(* empty.                                                                  *)
DescriptorElements(descriptor) ==
    IF descriptor.kind = "absent"
    THEN <<JObject(NoFields)>>
    ELSE descriptor.elems

ParseFails(descriptor) == descriptor.kind \in {"invalid", "scalar"}

----------------------------------------------------------------------------
(* checkArgs: the validation of the endpoints and the TLS configuration    *)

(* The certificate files that can be read *)
ReadableFiles == {"ca.pem", "cert.pem", "key.pem"}

(* corev2.LoadCACerts / tls.LoadX509KeyPair succeed *)
LoadCACertsOK(file) == file \in ReadableFiles
LoadX509KeyPairOK(cert, key) == cert \in ReadableFiles /\ key \in ReadableFiles

ArgsFail(status, err) == [status |-> status, err |-> err]

(* tlsConfig as the loop body sets it for one endpoint *)
WithRootCAs(tls, endpoint) ==
    IF Len(endpoint.TrustedCAFile) > 0
    THEN [tls EXCEPT !.RootCAs = endpoint.TrustedCAFile]
    ELSE tls

WithInsecureSkipVerify(tls, endpoint) ==
    [tls EXCEPT !.InsecureSkipVerify = endpoint.InsecureSkipVerify]

WithCertificates(tls, endpoint) ==
    IF Len(endpoint.MTLSKeyFile) > 0 /\ Len(endpoint.MTLSCertFile) > 0
    THEN [tls EXCEPT !.Certificates =
              <<<<endpoint.MTLSCertFile, endpoint.MTLSKeyFile>>>>]
    ELSE tls

Validated(result, tls) == [result |-> result, tls |-> tls]

(* Mutant: the header strings are not validated *)
ValidateEndpointNoHeaderCheck(endpoint, tls) ==
    LET withFlag == WithInsecureSkipVerify(WithRootCAs(tls, endpoint), endpoint) IN
    IF Len(endpoint.URL) = 0
    THEN Validated(ArgsFail(CheckStateWarning, "url_required"), tls)
    ELSE IF Len(endpoint.TrustedCAFile) > 0
            /\ ~LoadCACertsOK(endpoint.TrustedCAFile)
    THEN Validated(ArgsFail(CheckStateWarning, "ca_load_error"), tls)
    ELSE IF (Len(endpoint.MTLSKeyFile) > 0) # (Len(endpoint.MTLSCertFile) > 0)
    THEN Validated(ArgsFail(CheckStateWarning, "mtls_both_required"), withFlag)
    ELSE IF Len(endpoint.MTLSKeyFile) > 0
            /\ ~LoadX509KeyPairOK(endpoint.MTLSCertFile, endpoint.MTLSKeyFile)
    THEN Validated(ArgsFail(CheckStateWarning, "keypair_load_error"), withFlag)
    ELSE Validated(ArgsOK, WithCertificates(withFlag, endpoint))

(* The body of the validation loop for one endpoint: the first return it   *)
(* reaches (ArgsOK when it reaches none) and tlsConfig as far as it got.   *)
ValidateEndpoint(endpoint, tls) ==
    LET withFlag == WithInsecureSkipVerify(WithRootCAs(tls, endpoint), endpoint) IN
    IF Len(endpoint.URL) = 0
    THEN Validated(ArgsFail(CheckStateWarning, "url_required"), tls)
    ELSE IF \E i \in 1..Len(endpoint.Headers) :
                Len(SplitN2(endpoint.Headers[i])) # 2
    THEN Validated(ArgsFail(CheckStateWarning, "header_malformed"), tls)
    ELSE IF Len(endpoint.TrustedCAFile) > 0
            /\ ~LoadCACertsOK(endpoint.TrustedCAFile)
    THEN Validated(ArgsFail(CheckStateWarning, "ca_load_error"), tls)
    ELSE IF (Len(endpoint.MTLSKeyFile) > 0) # (Len(endpoint.MTLSCertFile) > 0)
    THEN Validated(ArgsFail(CheckStateWarning, "mtls_both_required"), withFlag)
    ELSE IF Len(endpoint.MTLSKeyFile) > 0
            /\ ~LoadX509KeyPairOK(endpoint.MTLSCertFile, endpoint.MTLSKeyFile)
    THEN Validated(ArgsFail(CheckStateWarning, "keypair_load_error"), withFlag)
    ELSE Validated(ArgsOK, WithCertificates(withFlag, endpoint))

(* for _, endpoint := range endpoints { ... }: the loop returns at the     *)
(* first endpoint that fails.                                              *)
RECURSIVE ValidateFrom(_, _, _)
ValidateFrom(eps, i, tls) ==
    IF i > Len(eps)
    THEN Validated(ArgsOK, tls)
    ELSE LET v == ValidateEndpoint(eps[i], tls) IN
         IF v.result.err # Nil THEN v ELSE ValidateFrom(eps, i + 1, v.tls)

(* checkArgs, and the plugin workflow that runs executeCheck only when     *)
(* checkArgs returned a nil error.                                         *)
CheckArgs ==
    /\ pc = "checkArgs"
    /\ IF ParseFails(plugin.Endpoints)
       THEN /\ endpoints' = << >>
            /\ argsResult' = ArgsFail(CheckStateUnknown, "cannot_parse")
            /\ UNCHANGED <<plugin, tlsConfig>>
       ELSE LET parsed == parseEndpoints(DescriptorElements(plugin.Endpoints),
                                         plugin)
                checked == ValidateFrom(parsed.endpoints, 1, tlsConfig) IN
            /\ endpoints' = parsed.endpoints
            /\ plugin' = parsed.plugin
            /\ IF Len(parsed.endpoints) = 0
               THEN /\ argsResult' = ArgsFail(CheckStateUnknown, "no_endpoints")
                    /\ UNCHANGED tlsConfig
               ELSE /\ argsResult' = checked.result
                    /\ tlsConfig' = checked.tls
    /\ pc' = IF argsResult'.err = Nil THEN "probe" ELSE "exit"
    /\ UNCHANGED <<dryRun, suppressOK, checkRedirect, e, resp, probed, posts,
                   printed, report, overallStatus, overallError, requests, singleVars>>

----------------------------------------------------------------------------
(* Runs from the command line: checkArgs, then executeCheck                *)

MaxSpareCap == 1

(* Header strings *)
HeaderA1 == <<"A", ":", " ", "1">>
Headera2 == <<"a", ":", "2">>
HeaderB12 == <<"B", ":", "1", ":", "2">>
HeaderHost == <<"h", "O", "s", "t", ":", " ", "v">>
HeaderNoColon == <<"A", "1">>

(* The descriptors over a set of elements: no descriptor, a string that is *)
(* not JSON, a JSON value that is not an array, and the arrays of up to    *)
(* MaxEndpoints elements.                                                  *)
Descriptors(elements) ==
    {NoDescriptor, [kind |-> "invalid", elems |-> << >>],
     [kind |-> "scalar", elems |-> << >>]}
    \cup {[kind |-> "array", elems |-> l] :
             l \in UNION {[1..n -> elements] : n \in 0..MaxEndpoints}}

(* Elements for the runs through validation and probing *)
ArgsElements ==
    {JNumberElem,
     JObject(NoFields),
     JObject("url" :> JString("http://b/x")),
     JObject("url" :> JString("")),
     JObject("url" :> JNumber(5)),
     JObject("header" :> JArray(<<HeaderNoColon>>)),
     JObject("header" :> JArray(<<HeaderHost, HeaderA1, Headera2>>)),
     JObject("header" :> JArray(<<HeaderB12>>)),
     JObject("mtls-key-file" :> JString("key.pem")),
     JObject("mtls-cert-file" :> JString("cert.pem")
             @@ "mtls-key-file" :> JString("key.pem")),
     JObject("trusted-ca" :> JString("missing.pem")),
     JObject("url" :> JString(SecureURL)),
     JObject("url" :> JString(SecureURL) @@ "trusted-ca" :> JString("ca.pem")
             @@ "insecure-skip-verify" :> JBool(TRUE))}

ArgsConfigs ==
    {[DefaultConfig EXCEPT !.URL = u, !.Endpoints = d] :
        u \in {DefaultURL, ""}, d \in Descriptors(ArgsElements)}

(* The state before checkArgs, for a set of configurations *)
InitRun(configs) ==
    /\ plugin \in configs
    /\ endpoints = << >>
    /\ dryRun = FALSE
    /\ suppressOK = FALSE
    /\ checkRedirect = "nil"
    /\ pc = "checkArgs"
    /\ e = 1
    /\ resp = NoResp
    /\ probed = << >>
    /\ posts = << >>
    /\ printed = << >>
    /\ report = << >>
    /\ overallStatus = 0
    /\ overallError = << >>
    /\ tlsConfig = ZeroTLSConfig
    /\ argsResult = ArgsOK
    /\ requests = << >>
    /\ NoSingleCheck

InitArgs == InitRun(ArgsConfigs)

NextArgs == CheckArgs \/ ProbeStep \/ EventStep \/ ReportStep

SpecArgs == InitArgs /\ [][NextArgs]_vars

----------------------------------------------------------------------------
(* Runs over endpoints whose URL may fail to parse, with and without       *)
(* globally supplied entity and check names                                *)

URLElements ==
    {JObject("url" :> JString("http://b/x")),
     JObject("url" :> JString(MalformedURL)),
     JObject("url" :> JString(MalformedURL) @@ "create-event" :> JBool(TRUE))}

URLConfigs ==
    {[DefaultConfig EXCEPT !.EntityName = n[1], !.CheckName = n[2],
                           !.Endpoints = [kind |-> "array", elems |-> l]] :
        n \in {<<"", << >> >>, <<"entity1", <<"check1">> >>},
        l \in UNION {[1..k -> URLElements] : k \in 1..MaxEndpoints}}

InitURL == InitRun(URLConfigs)

SpecURL == InitURL /\ [][NextArgs]_vars

----------------------------------------------------------------------------
(* Parsing alone, over descriptors that set every field                    *)

(* The values the descriptors give each key *)
KeyValues ==
    [k \in {Tags[f] : f \in DOMAIN Tags} \cup {"event-check-name"} |->
        CASE k = "url" -> {JString("http://b/x"), JString(""), JNumber(5)}
          [] k = "header" ->
                {JArray(<<HeaderB12>>), JArray(<< >>),
                 JArray(<<HeaderHost, Headera2>>)}
          [] k = "search-string" -> {JString(<<"b">>), JString(<< >>)}
          [] k = "timeout" -> {JNumber(5), JNumber(0)}
          [] k \in {"mtls-key-file", "mtls-cert-file", "trusted-ca"} ->
                {JString("cert.pem"), JString("")}
          [] k \in {"redirect-ok", "insecure-skip-verify", "create-event"} ->
                {JBool(TRUE), JBool(FALSE)}
          [] k = "event-entity-name" -> {JString("entity2")}
          [] k = "event-check-name" -> {JString(<<"check2">>)}
          [] k = "event-handlers" ->
                {JArray(<<"email">>), JArray(<< >>),
                 JArray(<<"email", "pager">>)}
          [] k = "events-api" -> {JString("http://sink2/events"), JString("")}]

(* The elements: a number, the empty object and the objects with one       *)
(* member.                                                                 *)
ParseElements ==
    {JNumberElem, JObject(NoFields)}
    \cup UNION {{JObject(k :> v) : v \in KeyValues[k]} : k \in DOMAIN KeyValues}

(* Global settings that differ from the option defaults in every field *)
CustomConfig ==
    [Endpoints |-> NoDescriptor,
     URL |-> "http://a/", SearchString |-> <<"a", "b">>,
     Headers |-> <<HeaderA1>>,
     RedirectOK |-> TRUE, Timeout |-> 30,
     MTLSKeyFile |-> "key.pem", MTLSCertFile |-> "cert.pem",
     TrustedCAFile |-> "ca.pem",
     InsecureSkipVerify |-> TRUE, CreateEvent |-> TRUE,
     EntityName |-> "entity1", CheckName |-> <<"check1">>,
     EventsAPI |-> "http://sink/events", Handlers |-> <<"slack">>,
     Cap |-> [Headers |-> 1, Handlers |-> 1]]

(* The capacity of a plugin slice is its length plus up to MaxSpareCap *)
ParseConfigs ==
    {[c EXCEPT !.Endpoints = d,
               !.Cap = [f \in SliceFields |-> Len(c[f]) + spare]] :
        c \in {DefaultConfig, CustomConfig},
        spare \in 0..MaxSpareCap,
        d \in Descriptors(ParseElements)}

InitParse == InitRun(ParseConfigs)

SpecParse == InitParse /\ [][CheckArgs]_vars

----------------------------------------------------------------------------
(* Vocabulary of the properties *)

N == Len(endpoints)

Probed(i) == \E k \in 1..Len(probed) : probed[k] = i

(* The endpoint of the latest probe *)
Last == probed[Len(probed)]

ProbeLoopDone == pc \in {"events", "report", "done"}
EventLoopDone == pc \in {"report", "done"}

TransportErrors == {"parse_error", "create_error", "send_error", "read_error"}

TransportFailed(i) == endpoints[i].Error \in TransportErrors

MaxOf(S) == CHOOSE m \in S \cup {0} : \A x \in S : x <= m

(* The events emitted for endpoint i: POSTed in live mode, printed in dry-run *)
PostsFor(i) == {k \in 1..Len(posts) : posts[k].endpoint = i}
PrintsFor(i) == {k \in 1..Len(printed) : printed[k].endpoint = i}

----------------------------------------------------------------------------
(* C1: a transport failure (send or body read error) on endpoint i does    *)
(* not halt the iteration: once the probe loop is over, every endpoint     *)
(* after i has been probed.                                                *)
C1_TransportFailureDoesNotHalt ==
    ProbeLoopDone =>
        \A i \in 1..N :
            endpoints[i].Error \in {"send_error", "read_error"} =>
                \A j \in (i + 1)..N : Probed(j)

(* C2: in a run without transport failures every endpoint is probed        *)
(* exactly once, in list order, whatever the search strings of the         *)
(* endpoints before it.                                                    *)
C2_EveryEndpointProbedOnceInOrder ==
    (ProbeLoopDone /\ \A i \in 1..N : ~TransportFailed(i)) =>
        probed = [i \in 1..N |-> i]

----------------------------------------------------------------------------
(* Substring, stated without strings.Contains: sub is s[i..j] for some i, j *)
IsSubstring(sub, s) ==
    \E i \in 1..(Len(s) + 1) : \E j \in 0..Len(s) : SubSeq(s, i, j) = sub

(* The latest probe returned a response (no send or read error) *)
LastResponded == probed # << >> /\ resp.phase = "resp"

(* C4: an endpoint with a non-empty search string whose probe returned a   *)
(* response is OK iff the body contains the search string and CRITICAL     *)
(* otherwise, for every status code and redirect policy.                   *)
C4_SearchResultDependsOnBodyOnly ==
    (LastResponded /\ Len(endpoints[Last].SearchString) > 0) =>
        endpoints[Last].Status =
            IF IsSubstring(endpoints[Last].SearchString, resp.Body)
            THEN CheckStateOK ELSE CheckStateCritical

(* C4 witness: the search string is found in a 500 response and the result *)
(* is OK.                                                                  *)
C4_Witness ==
    /\ LastResponded
    /\ Len(endpoints[Last].SearchString) > 0
    /\ resp.StatusCode = 500
    /\ IsSubstring(endpoints[Last].SearchString, resp.Body)
    /\ endpoints[Last].Status = CheckStateOK

(* C5: with an empty search string and redirect policy "stop" the result   *)
(* depends only on the status code: >= 400 CRITICAL, 300..399 WARNING,     *)
(* -1 UNKNOWN, anything else OK.                                           *)
C5_StopPolicyStatusRules ==
    (LastResponded /\ Len(endpoints[Last].SearchString) = 0
                   /\ ~endpoints[Last].RedirectOK) =>
        endpoints[Last].Status =
            CASE resp.StatusCode >= 400 -> CheckStateCritical
              [] resp.StatusCode \in 300..399 -> CheckStateWarning
              [] resp.StatusCode = -1 -> CheckStateUnknown
              [] OTHER -> CheckStateOK

(* C5 witness: a 301 under policy "stop" gives WARNING *)
C5_Witness ==
    /\ LastResponded
    /\ Len(endpoints[Last].SearchString) = 0
    /\ ~endpoints[Last].RedirectOK
    /\ resp.StatusCode = 301
    /\ endpoints[Last].Status = CheckStateWarning

(* C6: with an empty search string and redirect policy "follow", when a    *)
(* redirect was followed (the final URL differs from the requested URL)    *)
(* the result is OK if the terminal status is below 400 and CRITICAL if    *)
(* it is 400 or above.                                                     *)
C6_FollowedRedirectRules ==
    (LastResponded /\ Len(endpoints[Last].SearchString) = 0
                   /\ endpoints[Last].RedirectOK
                   /\ resp.FinalURL # endpoints[Last].URL) =>
        endpoints[Last].Status =
            IF resp.StatusCode < 400 THEN CheckStateOK ELSE CheckStateCritical

(* C6 witness: a followed redirect that ends in a 3xx without Location is  *)
(* OK, not WARNING.                                                        *)
C6_Witness ==
    /\ LastResponded
    /\ Len(endpoints[Last].SearchString) = 0
    /\ endpoints[Last].RedirectOK
    /\ resp.FinalURL # endpoints[Last].URL
    /\ resp.StatusCode = 301
    /\ endpoints[Last].Status = CheckStateOK

(* C7: with redirect policy "follow", an empty search string and a final   *)
(* 3xx response whose URL equals the requested URL, the result is OK.      *)
C7_UnfollowedRedirectIsOKUnderFollow ==
    (LastResponded /\ Len(endpoints[Last].SearchString) = 0
                   /\ endpoints[Last].RedirectOK
                   /\ resp.StatusCode \in 300..399
                   /\ resp.FinalURL = endpoints[Last].URL) =>
        endpoints[Last].Status = CheckStateOK

----------------------------------------------------------------------------
(* The events constructed for endpoint i, POSTed or printed *)
EventsFor(i) ==
    {posts[k].event : k \in PostsFor(i)} \cup {printed[k].event : k \in PrintsFor(i)}

EventCount(i) == Cardinality(PostsFor(i)) + Cardinality(PrintsFor(i))

(* The event the endpoint's fields call for *)
ExpectedEvent(i) ==
    [CheckName |-> endpoints[i].CheckName,
     CheckStatus |-> endpoints[i].Status,
     CheckOutput |-> endpoints[i].StatusMsg,
     CheckHandlers |-> endpoints[i].Handlers,
     EntityName |-> endpoints[i].EntityName]

C9_DryRunNeverPostsLivePostsToOwnAPI ==
    /\ dryRun => posts = << >>
    /\ ~dryRun => printed = << >>
    /\ \A k \in 1..Len(posts) :
          posts[k].api = endpoints[posts[k].endpoint].EventsAPI
    /\ (~dryRun /\ EventLoopDone) =>
          \A i \in 1..N :
              (endpoints[i].CreateEvent /\ ~TransportFailed(i)) =>
                  Cardinality(PostsFor(i)) = 1

(* C9 witness: a finished dry-run in which two events were constructed and *)
(* printed with different destinations, and nothing was POSTed.            *)
C9_Witness ==
    /\ dryRun
    /\ pc = "done"
    /\ Len(printed) = 2
    /\ printed[1].api # printed[2].api
    /\ posts = << >>

(* The report lines printed for endpoint i *)
LinesFor(i) == {k \in 1..Len(report) : report[k].URL = endpoints[i].URL}

FailedPosts == {k \in 1..Len(posts) : ~posts[k].ok}

(* C10: in live mode a failed event POST is recorded in the error the run  *)
(* returns, and the endpoint's severity and message are those it had when  *)
(* the event was built, its report line is the line of that severity and   *)
(* message, and the overall severity is the maximum over the endpoints     *)
(* without a POST.                                                         *)
C10_FailedPostIsRecordedAndChangesNothing ==
    (pc = "done" /\ ~dryRun) =>
        /\ Cardinality({m \in 1..Len(overallError) : overallError[m] = "post_error"})
              = Cardinality(FailedPosts)
        /\ \A k \in FailedPosts :
              LET i == posts[k].endpoint
                  before == posts[k].event IN
              /\ endpoints[i].Error = "post_error"
              /\ endpoints[i].Status = before.CheckStatus
              /\ endpoints[i].StatusMsg = before.CheckOutput
              /\ IF before.CheckStatus > 0 \/ ~suppressOK
                 THEN /\ Cardinality(LinesFor(i)) = 1
                      /\ \A l \in LinesFor(i) :
                            /\ report[l].Status = before.CheckStatus
                            /\ report[l].Output = before.CheckOutput
                 ELSE LinesFor(i) = {}
        /\ overallStatus =
              MaxOf({endpoints[j].Status : j \in {x \in 1..N : PostsFor(x) = {}}})

(* C10 witness: a finished live run with a failed POST for a CRITICAL      *)
(* endpoint, an error returned and an overall severity of OK.              *)
C10_Witness ==
    /\ pc = "done"
    /\ ~dryRun
    /\ \E k \in FailedPosts :
          endpoints[posts[k].endpoint].Status = CheckStateCritical
    /\ overallError # << >>
    /\ overallStatus = CheckStateOK

----------------------------------------------------------------------------
(* C11: a failed event POST for one endpoint does not stop the emission of *)
(* events: every event-creating endpoint later in the list still has its   *)
(* event POSTed, the POSTs are made in list order, and an event is only    *)
(* emitted after all endpoints have been probed.                           *)
C11_FailedPostDoesNotStopEmission ==
    /\ (posts # << >> \/ printed # << >>) => \A i \in 1..N : Probed(i)
    /\ \A k \in 1..Len(posts) : \A l \in 1..Len(posts) :
          k < l => posts[k].endpoint < posts[l].endpoint
    /\ (~dryRun /\ EventLoopDone) =>
          \A k \in FailedPosts :
              \A j \in (posts[k].endpoint + 1)..N :
                  endpoints[j].CreateEvent => Cardinality(PostsFor(j)) = 1

----------------------------------------------------------------------------
(* The report line the fields of endpoint i call for *)
ExpectedLine(i) ==
    [URL |-> endpoints[i].URL, Status |-> endpoints[i].Status,
     Output |-> endpoints[i].StatusMsg]

(* The endpoint a report line is about *)
LineEndpoint(k) == CHOOSE i \in 1..N : endpoints[i].URL = report[k].URL

(* C12: the report has at most one line per endpoint, in list order: an    *)
(* endpoint with severity greater than OK always has its line, with or     *)
(* without suppress-OK-output, an endpoint with severity OK has its line   *)
(* iff suppress-OK-output is disabled, and this holds for event-creating   *)
(* endpoints as well.                                                      *)
C12_ReportLinesPerEndpoint ==
    /\ \A k \in 1..Len(report) : \A l \in 1..Len(report) :
          k < l => LineEndpoint(k) < LineEndpoint(l)
    /\ pc = "done" =>
          \A i \in 1..N :
              /\ endpoints[i].Status > CheckStateOK =>
                    Cardinality(LinesFor(i)) = 1
              /\ endpoints[i].Status = CheckStateOK =>
                    (Cardinality(LinesFor(i)) = 1 <=> ~suppressOK)
              /\ \A l \in LinesFor(i) : report[l] = ExpectedLine(i)

(* C12 witness: a finished run with suppress-OK-output in which the        *)
(* CRITICAL event-creating endpoint has the only line of the report and    *)
(* the OK endpoint has none.                                               *)
C12_Witness ==
    /\ pc = "done"
    /\ suppressOK
    /\ N = 2
    /\ endpoints[1].CreateEvent /\ endpoints[1].Status = CheckStateCritical
    /\ endpoints[2].Status = CheckStateOK /\ Probed(2)
    /\ report = <<ExpectedLine(1)>>

----------------------------------------------------------------------------
(* The endpoints with a recorded error *)
WithError == {i \in 1..N : endpoints[i].Error # Nil}

(* The m-th endpoint with a recorded error, in list order *)
NthWithError(m) ==
    CHOOSE i \in WithError : Cardinality({j \in WithError : j < i}) = m - 1

(* C13: the error the run returns combines the errors of all endpoints     *)
(* that recorded one: it is nil iff no endpoint recorded an error, and     *)
(* otherwise has one entry per endpoint with a recorded error, in list     *)
(* order.                                                                  *)
C13_ReturnedErrorCombinesAllErrors ==
    pc = "done" =>
        /\ overallError = << >> <=> WithError = {}
        /\ Len(overallError) = Cardinality(WithError)
        /\ \A m \in 1..Len(overallError) :
              overallError[m] = endpoints[NthWithError(m)].Error

(* C13 witness: a finished run that returns two errors, the failed POST of *)
(* the first endpoint before the send error of the second.                 *)
C13_Witness ==
    /\ pc = "done"
    /\ N = 2
    /\ endpoints[1].Error = "post_error"
    /\ endpoints[2].Error = "send_error"
    /\ overallError = <<"post_error", "send_error">>

----------------------------------------------------------------------------
(* Vocabulary of the properties of checkArgs *)

ArgsReturned == pc # "checkArgs"

(* The elements of an inline descriptor array *)
Elems == plugin.Endpoints.elems

(* The descriptor keys and their JSON types, as the usage text gives them *)
DocumentedKey ==
    [URL |-> "url", Headers |-> "header", SearchString |-> "search-string",
     RedirectOK |-> "redirect-ok", Timeout |-> "timeout",
     MTLSKeyFile |-> "mtls-key-file", MTLSCertFile |-> "mtls-cert-file",
     TrustedCAFile |-> "trusted-ca",
     InsecureSkipVerify |-> "insecure-skip-verify",
     CreateEvent |-> "create-event", EntityName |-> "event-entity-name",
     CheckName |-> "event-check-name", Handlers |-> "event-handlers",
     EventsAPI |-> "events-api"]

DocumentedType ==
    [f \in DOMAIN DocumentedKey |->
        CASE f \in {"Headers", "Handlers"} -> "array"
          [] f \in {"RedirectOK", "InsecureSkipVerify", "CreateEvent"} -> "bool"
          [] f = "Timeout" -> "number"
          [] OTHER -> "string"]

(* A well-formed endpoint object: an object whose members have the types   *)
(* of their keys.                                                          *)
WellFormed(elem) ==
    /\ elem.kind = "object"
    /\ \A f \in DOMAIN DocumentedKey :
          DocumentedKey[f] \in DOMAIN elem.fields =>
              elem.fields[DocumentedKey[f]].t = DocumentedType[f]

(* The descriptor sets field f in a well-formed element *)
DescriptorSets(elem, f) ==
    /\ WellFormed(elem)
    /\ DocumentedKey[f] \in DOMAIN elem.fields

DescriptorValue(elem, f) == elem.fields[DocumentedKey[f]].v

NothingSent == probed = << >> /\ requests = << >> /\ posts = << >>

(* C14: a descriptor that parses to zero entries, or that cannot be parsed *)
(* as a list of endpoint objects (a string that is not JSON, a value that  *)
(* is not an array, or an array with an element that is not a well-formed  *)
(* endpoint object, such as a number or a member of the wrong type) makes  *)
(* checkArgs return UNKNOWN with an error, and no endpoint is probed.      *)
C14_UnparsableDescriptorIsUnknown ==
    (/\ ArgsReturned
     /\ \/ plugin.Endpoints.kind \in {"invalid", "scalar"}
        \/ /\ plugin.Endpoints.kind = "array"
           /\ \/ Len(Elems) = 0
              \/ \E i \in 1..Len(Elems) : ~WellFormed(Elems[i]))
    => /\ argsResult.status = CheckStateUnknown
       /\ argsResult.err # Nil
       /\ NothingSent

----------------------------------------------------------------------------
(* What validation rejects in a resolved endpoint: an empty URL, a header  *)
(* string without a colon, exactly one of mTLS certificate and key         *)
Invalid(endpoint) ==
    \/ endpoint.URL = ""
    \/ \E j \in 1..Len(endpoint.Headers) :
          \A c \in 1..Len(endpoint.Headers[j]) : endpoint.Headers[j][c] # ":"
    \/ (endpoint.MTLSKeyFile = "") # (endpoint.MTLSCertFile = "")

(* C15: validation is fail-fast over the whole list: if any resolved       *)
(* endpoint has an empty URL, a header string without a colon, or exactly  *)
(* one of mTLS certificate and key, checkArgs returns WARNING with an      *)
(* error and no HTTP request is sent to any endpoint, the valid endpoints  *)
(* before the invalid one included.                                        *)
C15_ValidationIsFailFast ==
    (ArgsReturned /\ \E i \in 1..N : Invalid(endpoints[i]))
    => /\ argsResult.status = CheckStateWarning
       /\ argsResult.err # Nil
       /\ NothingSent

(* C15 witness: checkArgs has returned WARNING for a list whose first      *)
(* endpoint is valid and whose second endpoint has a header string without *)
(* a colon, and nothing has been sent.                                     *)
C15_Witness ==
    /\ pc = "exit"
    /\ N = 2
    /\ ~Invalid(endpoints[1])
    /\ endpoints[2].URL # "" /\ endpoints[2].Headers = <<HeaderNoColon>>
    /\ argsResult.status = CheckStateWarning
    /\ NothingSent

----------------------------------------------------------------------------
(* An inline descriptor array in which every entry is an object without    *)
(* "url"                                                                   *)
InlineWithoutURL ==
    /\ plugin.Endpoints.kind = "array"
    /\ Len(Elems) > 0
    /\ \A i \in 1..Len(Elems) :
          Elems[i].kind = "object" /\ "url" \notin DOMAIN Elems[i].fields

(* C16 as stated: an inline descriptor in which every entry lacks "url"    *)
(* makes checkArgs return WARNING before any request is sent.              *)
C16_MissingURLIsWarning ==
    (ArgsReturned /\ InlineWithoutURL)
    => /\ argsResult.status = CheckStateWarning
       /\ argsResult.err # Nil
       /\ NothingSent

(* C16 amended: in an inline descriptor in which every entry lacks "url"   *)
(* every endpoint takes the global URL; checkArgs returns the WARNING for  *)
(* a missing URL, before any request is sent, exactly when the global URL  *)
(* is empty, and every request that is sent goes to the global URL.        *)
C16_MissingURLTakesGlobalURL ==
    (ArgsReturned /\ InlineWithoutURL)
    => /\ \A i \in 1..N : endpoints[i].URL = plugin.URL
       /\ argsResult.err = "url_required" <=> plugin.URL = ""
       /\ plugin.URL = "" => argsResult.status = CheckStateWarning /\ NothingSent
       /\ \A k \in 1..Len(requests) : requests[k].URL = plugin.URL

(* C16 witness: a finished run over two entries without "url" in which     *)
(* checkArgs returned OK and both requests went to the default URL.        *)
C16_Witness ==
    /\ pc = "done"
    /\ InlineWithoutURL
    /\ N = 2
    /\ plugin.URL = DefaultURL
    /\ argsResult = ArgsOK
    /\ Len(requests) = 2
    /\ \A k \in 1..2 : requests[k].URL = DefaultURL

----------------------------------------------------------------------------
(* The fields C17 names *)
MergedFields ==
    {"URL", "SearchString", "RedirectOK", "Timeout", "MTLSKeyFile",
     "MTLSCertFile", "TrustedCAFile", "InsecureSkipVerify", "CreateEvent",
     "Handlers", "EventsAPI"}

(* The global defaults are plugin before checkArgs, the resolved endpoints *)
(* are endpoints after it.                                                 *)

(* C17: for url, search-string, redirect-ok, timeout, mtls-key-file,       *)
(* mtls-cert-file, trusted-ca, insecure-skip-verify, create-event,         *)
(* event-handlers and events-api the resolved endpoint has the             *)
(* descriptor's value when the descriptor sets the field (false, 0 and     *)
(* empty values included) and the global default otherwise; the empty      *)
(* object synthesized when no descriptor is given yields exactly one       *)
(* endpoint with the global defaults.                                      *)
C17_FieldsMergeAtParseTime ==
    [][(pc = "checkArgs" /\ plugin.Endpoints.kind \in {"absent", "array"})
       => LET elems == IF plugin.Endpoints.kind = "absent"
                       THEN <<JObject(NoFields)>> ELSE Elems IN
          /\ Len(endpoints') = Len(elems)
          /\ \A i \in 1..Len(elems) :
                WellFormed(elems[i]) =>
                    \A f \in MergedFields :
                        endpoints'[i][f] =
                            IF DescriptorSets(elems[i], f)
                            THEN DescriptorValue(elems[i], f)
                            ELSE plugin[f]]_vars

(* C18: a descriptor that sets "event-entity-name" or "event-check-name"   *)
(* overrides the global default of that name, each independently of the    *)
(* other: the resolved endpoint has the descriptor's entity name, and the  *)
(* descriptor's check name.                                                *)
C18_DescriptorNamesOverride ==
    (ArgsReturned /\ plugin.Endpoints.kind = "array")
    => \A i \in 1..Len(Elems) :
          \A f \in {"EntityName", "CheckName"} :
              DescriptorSets(Elems[i], f) =>
                  endpoints[i][f] = DescriptorValue(Elems[i], f)

(* C19: a descriptor "header" list H replaces the global header list: the  *)
(* resolved endpoint's header list is exactly H, whatever the lengths of   *)
(* the global list and of H.                                               *)
C19_HeaderListReplacesGlobal ==
    (ArgsReturned /\ plugin.Endpoints.kind = "array")
    => \A i \in 1..Len(Elems) :
          DescriptorSets(Elems[i], "Headers") =>
              endpoints[i].Headers = DescriptorValue(Elems[i], "Headers")

----------------------------------------------------------------------------
(* Name and value of a header string: what is before and after its first   *)
(* colon, without the spaces around them                                   *)
BeforeColon(h) == SubSeq(h, 1, (CHOOSE c \in 1..Len(h) :
                        h[c] = ":" /\ \A d \in 1..(c - 1) : h[d] # ":") - 1)
AfterColon(h) == SubSeq(h, Len(BeforeColon(h)) + 2, Len(h))

RECURSIVE Unspaced(_)
Unspaced(s) ==
    IF Len(s) > 0 /\ Head(s) = " " THEN Unspaced(Tail(s))
    ELSE IF Len(s) > 0 /\ s[Len(s)] = " " THEN Unspaced(SubSeq(s, 1, Len(s) - 1))
    ELSE s

HeaderName(h) == Unspaced(BeforeColon(h))
HeaderValue(h) == Unspaced(AfterColon(h))

(* Two header names are the same name: equal up to the case of letters *)
SameName(a, b) ==
    Len(a) = Len(b) /\ \A c \in 1..Len(a) : Lower(a[c]) = Lower(b[c])

IsHostName(a) == SameName(a, <<"H", "o", "s", "t">>)

(* C20: in the request of every probe each header entry is split on its    *)
(* first colon and trimmed, a later entry for the same name overwrites an  *)
(* earlier one, and an entry whose name is "Host" in any case sets the     *)
(* request's virtual host and is not added as a request header.            *)
C20_HeadersAndVirtualHost ==
    \A k \in 1..Len(requests) :
        LET hs == endpoints[probed[k]].Headers
            req == requests[k] IN
        /\ \A name \in DOMAIN req.Header : ~IsHostName(name)
        /\ \A j \in 1..Len(hs) :
              (\A l \in (j + 1)..Len(hs) :
                    ~SameName(HeaderName(hs[l]), HeaderName(hs[j])))
              => IF IsHostName(HeaderName(hs[j]))
                 THEN req.Host = HeaderValue(hs[j])
                 ELSE \E name \in DOMAIN req.Header :
                        /\ SameName(name, HeaderName(hs[j]))
                        /\ req.Header[name] = HeaderValue(hs[j])

----------------------------------------------------------------------------
(* The list field f of the descriptor's element j, or the global list when *)
(* the element does not set it                                             *)
OwnOrGlobal(j, f) ==
    IF DescriptorSets(Elems[j], f)
    THEN DescriptorValue(Elems[j], f)
    ELSE plugin[f]

(* C30: resolving one endpoint leaves all others unchanged: parsing a      *)
(* descriptor that sets "header" or "event-handlers" for endpoint i        *)
(* changes neither the global header and handler lists nor the resolved    *)
(* lists of any other endpoint, before or after i, whether that endpoint   *)
(* inherited the global list or set its own.                               *)
C30_ResolvingOneEndpointLeavesOthers ==
    [][(/\ pc = "checkArgs"
        /\ plugin.Endpoints.kind = "array"
        /\ \A j \in 1..Len(Elems) : WellFormed(Elems[j]))
       => \A f \in {"Headers", "Handlers"} :
             (\E i \in 1..Len(Elems) : DescriptorSets(Elems[i], f))
             => /\ plugin'[f] = plugin[f]
                /\ \A j \in 1..Len(Elems) :
                      endpoints'[j][f] = OwnOrGlobal(j, f)]_vars

----------------------------------------------------------------------------
(* The path with every run of characters that are not letters or digits    *)
(* replaced by one underscore: a character stays if it is a letter or a    *)
(* digit, and becomes "_" if it opens a run of other characters.           *)
Underscored(s) ==
    LET Opens(p) == p[2] \in Alnum \/ p[1] = 1 \/ s[p[1] - 1] \in Alnum
        kept == SelectSeq([k \in 1..Len(s) |-> <<k, s[k]>>], Opens) IN
    [k \in 1..Len(kept) |-> IF kept[k][2] \in Alnum THEN kept[k][2] ELSE "_"]

(* The check name of an endpoint without a supplied check name *)
DefaultCheckName(u) ==
    IF URLPath(u) \in {<< >>, <<"/">>}
    THEN <<"http_check-", "root_path">>
    ELSE <<"http_check-">> \o Underscored(URLPath(u))

(* No name is supplied for the i-th endpoint, globally or in its element *)
NoNameSupplied(i, f) ==
    /\ Len(plugin[f]) = 0
    /\ plugin.Endpoints.kind = "array" =>
          DocumentedKey[f] \notin DOMAIN Elems[i].fields

(* C21: when no check name is supplied for an endpoint its check name is   *)
(* "http_check-" followed by the URL path with every run of                *)
(* non-alphanumeric characters replaced by one underscore, and a root path *)
(* ("/" as well as the empty path) gives "http_check-root_path"; when no   *)
(* entity name is supplied the entity name is the URL's host. Both hold    *)
(* for every endpoint that was probed or creates an event.                 *)
C21_SynthesizedNames ==
    (ArgsReturned /\ ProbeLoopDone) =>
        \A i \in 1..N :
            (Probed(i) \/ endpoints[i].CreateEvent) =>
                /\ NoNameSupplied(i, "CheckName") =>
                      endpoints[i].CheckName = DefaultCheckName(endpoints[i].URL)
                /\ NoNameSupplied(i, "EntityName") =>
                      endpoints[i].EntityName = URLHost(endpoints[i].URL)

(* The TLS configuration that endpoint i's own merged settings describe *)
OwnTLSConfig(i) ==
    [RootCAs |-> endpoints[i].TrustedCAFile,
     InsecureSkipVerify |-> endpoints[i].InsecureSkipVerify,
     Certificates |->
         IF Len(endpoints[i].MTLSCertFile) > 0 /\ Len(endpoints[i].MTLSKeyFile) > 0
         THEN <<<<endpoints[i].MTLSCertFile, endpoints[i].MTLSKeyFile>>>>
         ELSE << >>]

(* C22: the TLS configuration in force when endpoint i is probed is derived *)
(* only from endpoint i's own merged settings (skip-verification flag,      *)
(* trust bundle, client certificate), whatever the other endpoints of the   *)
(* list configure: an endpoint that does not skip verification is never     *)
(* probed with verification disabled, and a client certificate or trust     *)
(* bundle of one endpoint is never used for another.                        *)
C22_TLSConfigIsPerEndpoint ==
    ArgsReturned =>
        \A k \in 1..Len(requests) :
            requests[k].TLS.used =>
                requests[k].TLS.config = OwnTLSConfig(probed[k])

(* The CheckRedirect value endpoint i's own redirect policy calls for *)
OwnPolicy(i) == IF endpoints[i].RedirectOK THEN "nil" ELSE "stop"

(* C23: whether redirects are followed for an endpoint is determined only   *)
(* by that endpoint's own redirect policy: the client that probes it has    *)
(* CheckRedirect unset when the policy is "follow", even after an earlier   *)
(* endpoint with policy "stop", so that a redirect with a Location is       *)
(* followed and never returned, and has it set to stop when the policy is   *)
(* "stop".                                                                  *)
C23_RedirectPolicyIsPerEndpoint ==
    /\ probed # << >> => checkRedirect = OwnPolicy(Last)
    /\ (LastResponded /\ endpoints[Last].RedirectOK) =>
           IsFinal(resp.StatusCode, resp.Location, "nil")

(* C24: the iteration for an endpoint whose URL is not empty but cannot be  *)
(* parsed gives that endpoint a CRITICAL result; the run does not crash or  *)
(* abort, the loop goes on to the next endpoint when there is one, and the  *)
(* overall severity stays in 0..3.                                          *)
C24_UnparsableURLIsCriticalAndRunGoesOn ==
    [][(pc = "probe" /\ ~URLParseOK(endpoints[e].URL))
       => /\ pc' # "panic"
          /\ endpoints'[e].Status = CheckStateCritical
          /\ endpoints'[e].Error # Nil
          /\ e < Len(endpoints) => (pc' = "probe" /\ e' = e + 1)
          /\ overallStatus' \in 0..3]_vars

----------------------------------------------------------------------------
(* The single-URL checks http-get, http-json and http-perf. Each is a      *)
(* program of its own, with its own package variables plugin and           *)
(* tlsConfig and its own executeCheck; plugin.Name tells which one runs.   *)
(* Time is counted in seconds.                                             *)

(* The longest time the model lets a request wait *)
MaxElapsed == 3

(* plugin after the options are read: the fields executeCheck uses *)
SingleConfig(name) ==
    [Name |-> name, URL |-> DefaultURL, Timeout |-> DefaultTimeout,
     Headers |-> << >>, Query |-> "", Expression |-> ""]

(* if strings.EqualFold(headerKey, "host") { req.Host = headerValue;       *)
(* continue }; req.Header.Set(headerKey, headerValue)                      *)
SetHeaderHostAware(req, header) ==
    LET headerKey == TrimSpace(SplitN2(header)[1])
        headerValue == TrimSpace(SplitN2(header)[2]) IN
    IF [i \in 1..Len(headerKey) |-> Lower(headerKey[i])] = <<"h", "o", "s", "t">>
    THEN [req EXCEPT !.Host = headerValue]
    ELSE [req EXCEPT !.Header = HeaderSet(@, headerKey, headerValue)]

(* for _, header := range plugin.Headers { ... } *)
RECURSIVE SetHeadersHostAware(_, _)
SetHeadersHostAware(req, headers) ==
    IF Len(headers) = 0
    THEN req
    ELSE SetHeadersHostAware(SetHeaderHostAware(req, Head(headers)),
                             Tail(headers))

(* The request executeCheck builds; http-json asks for JSON first *)
SingleRequest(cfg) ==
    SetHeadersHostAware(
        IF cfg.Name = "http-json"
        THEN [NewRequest(cfg.URL) EXCEPT
                 !.Header = HeaderSet(@, <<"A", "c", "c", "e", "p", "t">>,
                                      <<"j", "s", "o", "n">>)]
        ELSE NewRequest(cfg.URL),
        cfg.Headers)

(* http-get and http-json send with client.Do, where client is             *)
(* http.DefaultClient with client.Timeout set; http-perf sets              *)
(* client.Timeout as well but sends with http.DefaultTransport.RoundTrip,  *)
(* which does not look at the client.                                      *)
UsesClient(cfg) == cfg.Name # "http-perf"

(* The client ends the request: client.Timeout is positive (zero means no  *)
(* timeout) and that much time has passed.                                 *)
TimedOut(cfg, d) == UsesClient(cfg) /\ cfg.Timeout > 0 /\ d >= cfg.Timeout

(* What executeCheck returns, the kind of line it prints, and whether it   *)
(* panics instead                                                          *)
Returned(status, err, out) ==
    [status |-> status, err |-> err, out |-> out, panic |-> FALSE]

Panicked == [status |-> -1, err |-> "none", out |-> "", panic |-> TRUE]

(* if err != nil after url.Parse, in all three programs *)
URLParseError == Returned(CheckStateCritical, Nil, "url parse error")

----------------------------------------------------------------------------
(* http-get: executeCheck after client.Do *)

GetResult(r) ==
    IF r.phase = "send_err"
    THEN Returned(CheckStateCritical, Nil, "request error")
    ELSE IF r.phase = "read_err"
    THEN Returned(CheckStateCritical, Nil, "read response body error")
    ELSE Returned(CheckStateOK, Nil, "body")

----------------------------------------------------------------------------
(* http-perf: executeCheck after http.DefaultTransport.RoundTrip. d is     *)
(* totalRequestDuration, w and c the package variables warning and         *)
(* critical.                                                               *)

(* Mutant: >= instead of > *)
PerfResultNonStrict(r, d, w, c) ==
    IF r.phase = "send_err"
    THEN Returned(CheckStateCritical, Nil, "request error")
    ELSE IF d >= c
    THEN Returned(CheckStateCritical, Nil, "http-perf CRITICAL")
    ELSE IF d >= w
    THEN Returned(CheckStateWarning, Nil, "http-perf WARNING")
    ELSE Returned(CheckStateOK, Nil, "http-perf OK")

PerfResult(r, d, w, c) ==
    IF r.phase = "send_err"
    THEN Returned(CheckStateCritical, Nil, "request error")
    ELSE IF d > c
    THEN Returned(CheckStateCritical, Nil, "http-perf CRITICAL")
    ELSE IF d > w
    THEN Returned(CheckStateWarning, Nil, "http-perf WARNING")
    ELSE Returned(CheckStateOK, Nil, "http-perf OK")
----------------------------------------------------------------------------
(* http-json: executeCheck after client.Do                                 *)

(* The values json.Unmarshal decodes into interface{} (nil, float64,       *)
(* string, map, slice), built with JString, JNumber and JArray above.      *)
JNull == [t |-> "null", v |-> 0]
JMap(fields) == [t |-> "object", v |-> fields]

(* A response body: the JSON document it holds, or bytes that are not JSON *)
JSONText(doc) == [json |-> TRUE, doc |-> doc]
NotJSON == [json |-> FALSE, doc |-> JNull]

(* jq programs: .key, .[], "l, r" and "l | r" *)
Field(key) == [op |-> "field", key |-> key]
Iterate == [op |-> "iterate"]
Comma(l, r) == [op |-> "comma", l |-> l, r |-> r]
Pipe(l, r) == [op |-> "pipe", l |-> l, r |-> r]

(* gojq.Parse followed by gojq.Compile, for the query strings of the      *)
(* model: the program, or the step that fails.                             *)
CompileQuery(query) ==
    CASE query = ".number" -> [err |-> Nil, code |-> Field("number")]
      [] query = ".text" -> [err |-> Nil, code |-> Field("text")]
      [] query = ".missing" -> [err |-> Nil, code |-> Field("missing")]
      [] query = ".[]" -> [err |-> Nil, code |-> Iterate]
      [] query = ".text.x" ->
            [err |-> Nil, code |-> Pipe(Field("text"), Field("x"))]
      [] query = ".number, .text.x" ->
            [err |-> Nil,
             code |-> Comma(Field("number"), Pipe(Field("text"), Field("x")))]
      [] query = ".text.x, .number" ->
            [err |-> Nil,
             code |-> Comma(Pipe(Field("text"), Field("x")), Field("number"))]
      [] query = ".[" -> [err |-> "parse", code |-> Iterate]
      [] query = "$v" -> [err |-> "compile", code |-> Iterate]

(* An error among the results of a query *)
QueryError == [t |-> "error", v |-> 0]

Failed(results) ==
    Len(results) > 0 /\ results[Len(results)] = QueryError

(* The keys of the model's objects, in the order gojq iterates them *)
KeyOrder == <<"number", "text">>

RECURSIVE ValuesOf(_, _)
ValuesOf(fields, keys) ==
    IF Len(keys) = 0
    THEN << >>
    ELSE (IF Head(keys) \in DOMAIN fields THEN <<fields[Head(keys)]>> ELSE << >>)
         \o ValuesOf(fields, Tail(keys))

(* code.Run(jsonBody): the results iter.Next() hands out. An error that    *)
(* the program does not catch is the last result.                          *)
RECURSIVE Run(_, _)
RECURSIVE RunEach(_, _)
RunEach(code, inputs) ==
    IF Len(inputs) = 0
    THEN << >>
    ELSE IF Head(inputs) = QueryError
    THEN <<QueryError>>
    ELSE LET first == Run(code, Head(inputs)) IN
         IF Failed(first) THEN first ELSE first \o RunEach(code, Tail(inputs))

Run(code, v) ==
    CASE code.op = "field" ->
            IF v.t = "object"
            THEN IF code.key \in DOMAIN v.v THEN <<v.v[code.key]>> ELSE <<JNull>>
            ELSE IF v.t = "null" THEN <<JNull>> ELSE <<QueryError>>
      [] code.op = "iterate" ->
            IF v.t = "array" THEN v.v
            ELSE IF v.t = "object" THEN ValuesOf(v.v, KeyOrder)
            ELSE <<QueryError>>
      [] code.op = "comma" ->
            LET left == Run(code.l, v) IN
            IF Failed(left) THEN left ELSE left \o Run(code.r, v)
      [] code.op = "pipe" -> RunEach(code.r, Run(code.l, v))

(* Mutant: the first result that is not an error *)
RECURSIVE FirstValue(_)
FirstValue(results) ==
    IF Len(results) = 0
    THEN JNull
    ELSE IF Head(results) = QueryError
    THEN FirstValue(Tail(results))
    ELSE Head(results)

(* The loop over iter.Next(): value is the last result that is not an      *)
(* error, nil (JNull) when there is none.                                  *)
RECURSIVE LastValue(_)
LastValue(results) ==
    IF Len(results) = 0
    THEN JNull
    ELSE IF results[Len(results)] = QueryError
    THEN LastValue(SubSeq(results, 1, Len(results) - 1))
    ELSE results[Len(results)]

(* gval.Evaluate("value " + expression, {"value": actualValue}) for the    *)
(* expression strings of the model: a boolean, a value of another type, or *)
(* an error.                                                               *)
GvalBool(b) == [kind |-> "bool", v |-> b]
GvalOther == [kind |-> "other", v |-> FALSE]
GvalError == [kind |-> "error", v |-> FALSE]

GvalEvaluate(value, expression) ==
    CASE expression = "== 10" -> GvalBool(value = JNumber(10))
      [] expression = "== \"testing\"" -> GvalBool(value = JString("testing"))
      [] expression = "> 9" ->
            IF value.t = "number" THEN GvalBool(value.v > 9) ELSE GvalError
      [] expression = "?? 1" ->
            IF value.t = "bool" THEN GvalBool(value.v) ELSE GvalOther
      [] expression = "==" -> GvalError

(* evaluateExpression: evalResult.(bool) panics when the result is not a   *)
(* bool.                                                                   *)
evaluateExpression(actualValue, expression) ==
    LET evalResult == GvalEvaluate(actualValue, expression) IN
    IF evalResult.kind = "error"
    THEN [found |-> FALSE, err |-> "eval", panic |-> FALSE]
    ELSE IF evalResult.kind = "bool"
    THEN [found |-> evalResult.v, err |-> Nil, panic |-> FALSE]
    ELSE [found |-> FALSE, err |-> Nil, panic |-> TRUE]

JSONVerdict(found) ==
    IF found
    THEN Returned(CheckStateOK, Nil, "OK")
    ELSE Returned(CheckStateCritical, Nil, "CRITICAL: did not match")

JSONResult(r, query, expression) ==
    IF r.phase = "send_err"
    THEN Returned(CheckStateCritical, Nil, "request error")
    ELSE IF r.phase = "read_err"
    THEN Returned(CheckStateCritical, Nil, "read response body error")
    ELSE IF CompileQuery(query).err = "parse"
    THEN Returned(CheckStateCritical, Nil, "Failed to parse query")
    ELSE IF CompileQuery(query).err = "compile"
    THEN Returned(CheckStateCritical, Nil, "Failed to compile query")
    ELSE IF ~r.Body.json
    THEN Returned(CheckStateCritical, Nil, "Could not unmarshal")
    ELSE LET value == LastValue(Run(CompileQuery(query).code, r.Body.doc))
             evaluated == evaluateExpression(value, expression) IN
         IF value = JNull
         THEN Returned(CheckStateCritical, Nil, "CRITICAL: No value was returned")
         ELSE IF evaluated.panic
         THEN Panicked
         ELSE IF evaluated.err # Nil
         THEN Returned(CheckStateCritical, "Error evaluating expression", "")
         ELSE JSONVerdict(evaluated.found)
----------------------------------------------------------------------------
(* The runs of the single-URL checks                                       *)

(* What client.Do and the reading of the body, or RoundTrip, can give      *)
(* before any timeout: http-get ignores the status code, http-perf never   *)
(* reads the body.                                                         *)
GetOutcomes ==
    {SendError, ReadError(200, DefaultURL, "")}
    \cup {Response(code, body, DefaultURL, "") :
             code \in {200, 500}, body \in {<< >>, <<"m">>}}

PerfOutcomes == {SendError, Response(200, << >>, DefaultURL, "")}

JSONBodies ==
    {NotJSON,
     JSONText(JMap("text" :> JString("testing") @@ "number" :> JNumber(10))),
     JSONText(JMap("text" :> JString("testing") @@ "number" :> JNumber(11))),
     JSONText(JMap("number" :> JNull)),
     JSONText(JArray(<<JNumber(11), JNumber(10)>>)),
     JSONText(JArray(<<JNumber(10), JNull>>)),
     JSONText(JArray(<<JBool(TRUE)>>))}

JSONOutcomes ==
    {[SendError EXCEPT !.Body = NotJSON],
     [ReadError(200, DefaultURL, "") EXCEPT !.Body = NotJSON]}
    \cup {Response(200, body, DefaultURL, "") : body \in JSONBodies}

SingleOutcomes(cfg) ==
    CASE cfg.Name = "http-get" -> GetOutcomes
      [] cfg.Name = "http-json" -> JSONOutcomes
      [] cfg.Name = "http-perf" -> PerfOutcomes

(* The rest of executeCheck once the request has ended with outcome r      *)
(* after d seconds                                                         *)
Completion(cfg, r, d, w, c) ==
    CASE cfg.Name = "http-get" -> GetResult(r)
      [] cfg.Name = "http-json" -> JSONResult(r, cfg.Query, cfg.Expression)
      [] cfg.Name = "http-perf" -> PerfResult(r, d, w, c)

(* What the single-URL checks leave alone *)
multiVars == <<endpoints, dryRun, suppressOK, checkRedirect, e, probed,
               posts, printed, overallStatus, overallError, argVars>>

(* executeCheck up to client.Do / RoundTrip *)
Send ==
    /\ pc = "execute"
    /\ IF ~URLParseOK(plugin.URL)
       THEN /\ ret' = [status |-> URLParseError.status, err |-> URLParseError.err]
            /\ report' = Append(report, URLParseError.out)
            /\ pc' = "done"
            /\ UNCHANGED <<requests, elapsed>>
       ELSE /\ requests' = Append(requests,
                               Sent(SingleRequest(plugin), tlsConfig))
            /\ elapsed' = 0
            /\ pc' = "waiting"
            /\ UNCHANGED <<ret, report>>
    /\ UNCHANGED <<resp, warning, critical, multiVars>>

(* The request ends with outcome r; executeCheck runs to its return *)
Finish(r) ==
    LET done == Completion(plugin, r, elapsed, warning, critical) IN
    /\ resp' = r
    /\ IF done.panic
       THEN pc' = "panic" /\ UNCHANGED <<ret, report>>
       ELSE /\ pc' = "done"
            /\ ret' = [status |-> done.status, err |-> done.err]
            /\ report' = Append(report, done.out)
    /\ UNCHANGED <<requests, elapsed, warning, critical, multiVars>>

(* A second passes while the request is pending. Every timeout of the      *)
(* model is below MaxElapsed: once that much time has passed no timer is   *)
(* pending, and more time changes nothing the program can observe.         *)
Tick ==
    /\ pc = "waiting"
    /\ elapsed < MaxElapsed
    /\ ~TimedOut(plugin, elapsed)
    /\ elapsed' = elapsed + 1
    /\ UNCHANGED <<pc, resp, requests, ret, report, warning, critical,
                   multiVars>>

(* The server answers, or the transport fails *)
Receive ==
    /\ pc = "waiting"
    /\ ~TimedOut(plugin, elapsed)
    /\ \E r \in SingleOutcomes(plugin) : Finish(r)

(* client.Timeout expires: client.Do returns an error *)
ClientTimeout ==
    /\ pc = "waiting"
    /\ TimedOut(plugin, elapsed)
    /\ Finish(IF plugin.Name = "http-json"
              THEN [SendError EXCEPT !.Body = NotJSON]
              ELSE SendError)

(* The query and expression pairs of the http-json runs *)
JSONChecks ==
    {<<".text", "== \"testing\"">>, <<".number", "== 10">>,
     <<".number", "> 9">>, <<".number", "?? 1">>, <<".number", "==">>,
     <<".missing", "== 10">>, <<".[]", "== 10">>, <<".[]", "?? 1">>,
     <<".text.x", "== 10">>, <<".number, .text.x", "== 10">>,
     <<".text.x, .number", "== 10">>, <<".[", "== 10">>, <<"$v", "== 10">>}

Timeouts == 0..(MaxElapsed - 1)
Thresholds == 1..(MaxElapsed - 1)

SingleConfigs ==
    {[SingleConfig("http-get") EXCEPT !.URL = u, !.Timeout = t, !.Headers = h] :
        u \in {DefaultURL, MalformedURL}, t \in Timeouts,
        h \in {<< >>, <<HeaderHost, HeaderA1>>}}
    \cup {[SingleConfig("http-json") EXCEPT !.Timeout = t, !.Query = q[1],
                                            !.Expression = q[2]] :
             t \in {1}, q \in JSONChecks}
    \cup {[SingleConfig("http-perf") EXCEPT !.Timeout = t] : t \in Timeouts}

(* The state when executeCheck is entered, checkArgs having succeeded *)
InitSingle ==
    /\ plugin \in SingleConfigs
    /\ IF plugin.Name = "http-perf"
       THEN warning \in Thresholds /\ critical \in Thresholds
       ELSE warning = 0 /\ critical = 0
    /\ ret = NotReturned
    /\ elapsed = 0
    /\ pc = "execute"
    /\ endpoints = << >>
    /\ dryRun = FALSE
    /\ suppressOK = FALSE
    /\ checkRedirect = "nil"
    /\ e = 1
    /\ resp = NoResp
    /\ probed = << >>
    /\ posts = << >>
    /\ printed = << >>
    /\ report = << >>
    /\ overallStatus = 0
    /\ overallError = << >>
    /\ tlsConfig = ZeroTLSConfig
    /\ argsResult = ArgsOK
    /\ requests = << >>

NextSingle == Send \/ Tick \/ Receive \/ ClientTimeout

SpecSingle == InitSingle /\ [][NextSingle]_vars

(* The program runs whenever it can, time passes, and a timer that has     *)
(* expired fires; nothing makes the server answer.                         *)
SpecSingleLive ==
    SpecSingle /\ WF_vars(Send) /\ WF_vars(Tick) /\ WF_vars(ClientTimeout)

----------------------------------------------------------------------------
(* Properties of the single-URL checks                                     *)

(* executeCheck of the named program has returned *)
Done(name) == plugin.Name = name /\ pc = "done"

(* C25: http-get returns CRITICAL when the response body is empty and when *)
(* the GET request fails (URL parse, request creation, send or body read   *)
(* error), and returns OK only for a response with a non-empty body.       *)
C25_GetIsOKOnlyForNonEmptyBody ==
    Done("http-get") =>
        /\ ret.status \in {CheckStateOK, CheckStateCritical}
        /\ ret.status = CheckStateOK
              <=> (resp.phase = "resp" /\ Len(resp.Body) > 0)

(* C28: http-perf classifies the measured total request duration d with    *)
(* strict comparisons: CRITICAL if d > critical, otherwise WARNING if       *)
(* d > warning, otherwise OK; a duration equal to a threshold does not trip *)
(* it, and when warning >= critical the result is never WARNING.            *)
C28_PerfThresholdsAreStrict ==
    (Done("http-perf") /\ resp.phase = "resp") =>
        /\ ret.err = Nil
        /\ ret.status = CheckStateCritical <=> elapsed > critical
        /\ ret.status = CheckStateWarning
              <=> (elapsed <= critical /\ elapsed > warning)
        /\ ret.status = CheckStateOK
              <=> (elapsed <= critical /\ elapsed <= warning)
        /\ warning >= critical => ret.status # CheckStateWarning

(* C28 witness: a duration equal to the critical threshold and above the   *)
(* warning threshold is WARNING.                                           *)
C28_Witness ==
    /\ Done("http-perf")
    /\ resp.phase = "resp"
    /\ elapsed = critical
    /\ elapsed > warning
    /\ ret.status = CheckStateWarning

(* C29: every probe eventually completes: a request that is pending ends,  *)
(* with a transport failure once the configured timeout has elapsed when   *)
(* the server never responds, so that every check of the family, http-perf *)
(* included, terminates.                                                   *)
C29_EveryProbeCompletes == (pc = "waiting") ~> (pc # "waiting")

(* The results of the query on the document of the response *)
Results == Run(CompileQuery(plugin.Query).code, resp.Body.doc)

(* The query ran: the response was read, the query compiled and the body   *)
(* is JSON.                                                                *)
QueryRan ==
    /\ resp.phase = "resp"
    /\ CompileQuery(plugin.Query).err = Nil
    /\ resp.Body.json

(* The positions of the results that are not errors *)
Values == {i \in 1..Len(Results) : Results[i] # QueryError}

(* The last result that is not an error *)
Compared == Results[CHOOSE i \in Values : \A j \in Values : j <= i]

(* The query yields a value: a result that is not an error, the last of    *)
(* which is not null.                                                      *)
YieldsValue == QueryRan /\ Values # {} /\ Compared # JNull

(* C26: http-json returns OK, with a nil error, if and only if the query   *)
(* yields a value (null is none) and the expression applied to that value  *)
(* evaluates to true; it returns CRITICAL with a nil error when the        *)
(* expression evaluates to false or the query yields no value; when the    *)
(* query yields several results the value compared is the last result that *)
(* is not an error.                                                        *)
C26_JSONVerdict ==
    (plugin.Name = "http-json" /\ pc \in {"done", "panic"}) =>
        /\ (ret.status = CheckStateOK /\ ret.err = Nil)
              <=> (YieldsValue /\
                   GvalEvaluate(Compared, plugin.Expression) = GvalBool(TRUE))
        /\ (QueryRan /\ (~YieldsValue \/
                         GvalEvaluate(Compared, plugin.Expression) = GvalBool(FALSE)))
              => (ret.status = CheckStateCritical /\ ret.err = Nil)

(* C26 witness: of the results 11 and 10 the last one is compared, and     *)
(* "== 10" gives OK.                                                       *)
C26_Witness ==
    /\ Done("http-json")
    /\ QueryRan
    /\ Results = <<JNumber(11), JNumber(10)>>
    /\ plugin.Expression = "== 10"
    /\ ret.status = CheckStateOK

(* C27: a malformed query (parse or compile failure) and a malformed        *)
(* expression (one that fails to evaluate, or that evaluates to a value     *)
(* that is not a boolean) each yield CRITICAL for that check: executeCheck  *)
(* returns CRITICAL and does not crash.                                     *)
C27_MalformedQueryOrExpressionIsCritical ==
    (plugin.Name = "http-json" /\ pc \in {"done", "panic"}
                               /\ resp.phase = "resp") =>
        ((CompileQuery(plugin.Query).err # Nil
          \/ (YieldsValue /\
              GvalEvaluate(Compared, plugin.Expression).kind # "bool"))
         => (pc = "done" /\ ret.status = CheckStateCritical))

====
